---- MODULE Spec2Model ----
(***************************************************************************)
(* A model of aws_utils/s3_utils.py: the path mapper create_dst_fpath, the *)
(* endpoint parser _parse_src_dst, the filename filter of cp, the          *)
(* PoolFunctions tasks and the pool.map dispatch of                        *)
(* MultiprocessingS3Interface.cp and of the __main__ script.               *)
(*                                                                         *)
(* A Python str is modelled as a sequence of one-character strings, so     *)
(* that split, startswith, endswith, os.path.join and os.path.split are    *)
(* computed character by character as CPython (posixpath) computes them.   *)
(***************************************************************************)
EXTENDS Naturals, Sequences, FiniteSets

VARIABLES
    \* one evaluation of create_dst_fpath and its re-application (PathSpec)
    m_pc, m_item, m_src, m_dst, m_out, m_out2,
    \* the caller: the arguments of cp() / of the script, and its position
    args, pc, exc, map_result,
    \* PoolFunctions fields
    bucket_name, dpath_src, dpath_dst, direction, in_bucket, src_fpaths,
    \* cp's local fnames and the function handed to pool.map
    fnames, task_func,
    \* the pool: one entry per element of fnames
    tasks,
    \* the environment: keys in the S3 bucket, files on the local disk
    bucket, local

pathVars == <<m_pc, m_item, m_src, m_dst, m_out, m_out2>>
funcVars == <<bucket_name, dpath_src, dpath_dst, direction, in_bucket, src_fpaths>>
envVars  == <<bucket, local>>
runVars  == <<args, pc, exc, map_result, funcVars, fnames, task_func, tasks, envVars>>
vars     == <<pathVars, runVars>>

\* ------------------------------------------------------------------ bounds
MaxItemLen == 3      \* longest item identifier drawn in PathSpec
MaxRootLen == 2      \* longest src/dst root drawn in PathSpec
MaxWorkers == 2      \* largest pool_size drawn in Spec
MaxFiles   == 3      \* most bucket keys / local files that exist initially
MaxKeyLen  == 2      \* longest inventory item drawn in FilterSpec
MaxPatLen  == 3      \* longest fnames string drawn in FilterSpec

\* ------------------------------------------------------- Python str helpers
Slash == "/"
Colon == ":"
Star  == "*"

\* str.startswith / str.endswith
StartsWith(s, p) == Len(p) <= Len(s) /\ SubSeq(s, 1, Len(p)) = p
EndsWith(s, p)   == Len(p) <= Len(s) /\ SubSeq(s, Len(s) - Len(p) + 1, Len(s)) = p

\* str.find(sep): index (1-based) of the first occurrence of sep, 0 if none
Find(s, sep) ==
    LET hits == {i \in 1..(Len(s) + 1) : i + Len(sep) - 1 <= Len(s)
                                         /\ SubSeq(s, i, i + Len(sep) - 1) = sep}
    IN IF hits = {} THEN 0 ELSE CHOOSE i \in hits : \A j \in hits : i <= j

\* str.rfind(sep): index of the last occurrence of sep, 0 if none
RFind(s, sep) ==
    LET hits == {i \in 1..(Len(s) + 1) : i + Len(sep) - 1 <= Len(s)
                                         /\ SubSeq(s, i, i + Len(sep) - 1) = sep}
    IN IF hits = {} THEN 0 ELSE CHOOSE i \in hits : \A j \in hits : i >= j

\* str.split(sep) for a non-empty sep: left to right, non-overlapping
RECURSIVE StrSplit(_, _)
StrSplit(s, sep) ==
    LET i == Find(s, sep)
    IN IF i = 0 THEN <<s>>
       ELSE <<SubSeq(s, 1, i - 1)>> \o StrSplit(SubSeq(s, i + Len(sep), Len(s)), sep)

\* str.split(sep) raises ValueError("empty separator") for sep == ''
SplitRaises(sep) == sep = <<>>

\* str.rstrip('/')
RECURSIVE RStripSlash(_)
RStripSlash(s) ==
    IF s # <<>> /\ s[Len(s)] = Slash THEN RStripSlash(SubSeq(s, 1, Len(s) - 1)) ELSE s

\* posixpath.join(a, b)
PathJoin(a, b) ==
    IF StartsWith(b, <<Slash>>) THEN b
    ELSE IF a = <<>> \/ EndsWith(a, <<Slash>>) THEN a \o b
    ELSE a \o <<Slash>> \o b

\* posixpath.split(p)[0]: everything before the last slash, trailing slashes
\* stripped unless it consists of slashes only
PathHead(p) ==
    LET i    == RFind(p, <<Slash>>)
        head == SubSeq(p, 1, i)
    IN IF RStripSlash(head) = <<>> THEN head ELSE RStripSlash(head)

\* posixpath.split(p)[-1]: everything after the last slash
PathTail(p) == SubSeq(p, RFind(p, <<Slash>>) + 1, Len(p))

\* ------------------------------------------------------------- PathMapper
\* create_dst_fpath with line 214 left out: the leading separator is kept
create_dst_fpath_keep_sep(src_fname, src_dpath, dst_dpath) ==
    LET pieces == StrSplit(src_fname, src_dpath)
    IN PathJoin(dst_dpath, pieces[Len(pieces)])

\* create_dst_fpath(src_fname, src_dpath, dst_dpath), for src_dpath # ''
create_dst_fpath(src_fname, src_dpath, dst_dpath) ==
    LET pieces  == StrSplit(src_fname, src_dpath)
        last    == pieces[Len(pieces)]
        subpath == IF StartsWith(last, <<Slash>>) THEN SubSeq(last, 2, Len(last)) ELSE last
    IN PathJoin(dst_dpath, subpath)

\* ------------------------------------------------------------------ PathSpec
\* Inputs of the path mapper: every string over PathAlphabet up to the bounds.
PathAlphabet == {"a", "b", Slash}
Strs(n) == UNION {[1..k -> PathAlphabet] : k \in 0..n}

\* values of the run's variables while only the path mapper is exercised
RunIdle ==
    /\ args = [mode |-> "none"] /\ pc = "idle" /\ exc = "none" /\ map_result = <<>>
    /\ bucket_name = <<>> /\ dpath_src = <<>> /\ dpath_dst = <<>>
    /\ direction = "none" /\ in_bucket = {} /\ src_fpaths = <<>>
    /\ fnames = <<>> /\ task_func = "none" /\ tasks = <<>>
    /\ bucket = {} /\ local = {}

PathIdle ==
    /\ m_pc = "idle" /\ m_item = <<>> /\ m_src = <<>> /\ m_dst = <<>>
    /\ m_out = <<>> /\ m_out2 = <<>>

PathInit ==
    /\ m_pc = "args"
    /\ m_item \in Strs(MaxItemLen)
    /\ m_src \in Strs(MaxRootLen)
    /\ m_dst \in Strs(MaxRootLen)
    /\ m_out = <<>> /\ m_out2 = <<>>
    /\ RunIdle

\* create_dst_fpath(item, src, dst) returns
MapPath ==
    /\ m_pc = "args"
    /\ ~SplitRaises(m_src)
    /\ m_out' = create_dst_fpath(m_item, m_src, m_dst)
    /\ m_pc' = "mapped"
    /\ UNCHANGED <<m_item, m_src, m_dst, m_out2, runVars>>

\* create_dst_fpath(item, '', dst): src_fname.split('') raises ValueError
MapPathRaises ==
    /\ m_pc = "args"
    /\ SplitRaises(m_src)
    /\ m_pc' = "ValueError"
    /\ UNCHANGED <<m_item, m_src, m_dst, m_out, m_out2, runVars>>

\* create_dst_fpath applied to its own result, with the same roots
MapAgain ==
    /\ m_pc = "mapped"
    /\ m_out2' = create_dst_fpath(m_out, m_src, m_dst)
    /\ m_pc' = "remapped"
    /\ UNCHANGED <<m_item, m_src, m_dst, m_out, runVars>>

PathNext == MapPath \/ MapPathRaises \/ MapAgain

PathSpec == PathInit /\ [][PathNext]_vars

\* -------------------------------------------------------------- SyncEngine
\* _parse_src_dst with the two targets of each unpacking exchanged
_parse_src_dst_swapped(src, dst) ==
    LET s == StrSplit(src, <<Colon>>)
        d == StrSplit(dst, <<Colon>>)
    IN IF Len(s) = 2
       THEN [raised |-> FALSE, bucket_name |-> s[2], src |-> s[1], dst |-> dst,
             direction |-> "down"]
       ELSE IF Len(d) = 2
       THEN [raised |-> FALSE, bucket_name |-> d[2], src |-> src, dst |-> d[1],
             direction |-> "up"]
       ELSE [raised |-> TRUE, bucket_name |-> <<>>, src |-> src, dst |-> dst,
             direction |-> "none"]

\* _parse_src_dst(src, dst): "bucket_name, src = src.split(':')" succeeds only
\* when the split has exactly two pieces; otherwise ValueError and dst is tried
_parse_src_dst(src, dst) ==
    LET s == StrSplit(src, <<Colon>>)
        d == StrSplit(dst, <<Colon>>)
    IN IF Len(s) = 2
       THEN [raised |-> FALSE, bucket_name |-> s[1], src |-> s[2], dst |-> dst,
             direction |-> "down"]
       ELSE IF Len(d) = 2
       THEN [raised |-> FALSE, bucket_name |-> d[1], src |-> src, dst |-> d[2],
             direction |-> "up"]
       ELSE [raised |-> TRUE, bucket_name |-> <<>>, src |-> src, dst |-> dst,
             direction |-> "none"]

\* the paths this model puts in the bucket and on the disk, in the order a
\* listing returns them (S3 lists keys in ascending order)
P_ddf == <<"d", Slash, "d", Slash, "f">>
P_df  == <<"d", Slash, "f">>
P_dg  == <<"d", Slash, "g">>
P_of  == <<"o", Slash, "f">>
PathUniverse == <<P_ddf, P_df, P_dg, P_of>>

\* the elements of PathUniverse that are in set S, in listing order
Listing(S) == SelectSeq(PathUniverse, LAMBDA k : k \in S)

\* s3.Bucket(name).objects.all() mapped to keys
files_in_bucket == Listing(bucket)

\* ls_r(directory): os.walk yields nothing for '' or a missing directory; the
\* walk joins the directory and the names below it with os.path.join. The
\* walk's order is the directory's; Listing fixes one. expanduser and
\* expandvars leave the paths drawn here (no '~', no '$') as they are.
ls_r(directory) ==
    LET top == IF EndsWith(directory, <<Slash>>) THEN directory
               ELSE directory \o <<Slash>>
    IN IF directory = <<>> THEN <<>>
       ELSE Listing({p \in local : StartsWith(p, top) /\ Len(p) > Len(top)})

\* the wildcard is matched against the whole path, not its last segment
ResolveFnames_fullpath(arg, fpaths) ==
    IF arg.kind = "none" THEN fpaths
    ELSE IF arg.kind = "str" /\ Find(arg.str, <<Star>>) # 0
    THEN LET tokens == StrSplit(arg.str, <<Star>>)
         IN SelectSeq(fpaths, LAMBDA fp : /\ StartsWith(fp, tokens[1])
                                          /\ EndsWith(fp, tokens[2]))
    ELSE IF arg.kind = "str" THEN [i \in 1..Len(arg.str) |-> <<arg.str[i]>>]
    ELSE arg.list

\* cp lines 152-166: the list of items handed to pool.map
\*   fnames is None            -> funcs.src_fpaths
\*   a str containing '*'      -> the src_fpaths whose last path segment starts
\*                                with tokens[0] and ends with tokens[1]
\*   anything else             -> fnames itself (a str is iterated by character)
ResolveFnames(arg, fpaths) ==
    IF arg.kind = "none" THEN fpaths
    ELSE IF arg.kind = "str" /\ Find(arg.str, <<Star>>) # 0
    THEN LET tokens == StrSplit(arg.str, <<Star>>)
         IN SelectSeq(fpaths, LAMBDA fp : /\ StartsWith(PathTail(fp), tokens[1])
                                          /\ EndsWith(PathTail(fp), tokens[2]))
    ELSE IF arg.kind = "str" THEN [i \in 1..Len(arg.str) |-> <<arg.str[i]>>]
    ELSE arg.list

None     == [kind |-> "none", str |-> <<>>, list |-> <<>>]
StrArg(s)  == [kind |-> "str",  str |-> s,    list |-> <<>>]
ListArg(l) == [kind |-> "list", str |-> <<>>, list |-> l]

\* the arguments drawn for cp(src, dst, fnames) and for the script
SrcArgs == { <<"b", Colon, "d">>, <<"d">>, <<"b", Colon>>, <<"b", Colon, "d", Colon, "d">> }
DstArgs == { <<"c", Colon, "o">>, <<"o">>, <<"d">>, <<>> }
FnamesArgs == { None, StrArg(<<Star, "f">>), StrArg(<<"f">>), ListArg(<<P_df, P_df>>) }

Worlds == {S \in SUBSET {PathUniverse[i] : i \in 1..Len(PathUniverse)} :
              Cardinality(S) <= MaxFiles}

CpArgs ==
    [mode : {"cp"}, src : SrcArgs, dst : DstArgs, dst_given : {TRUE},
     fnames : FnamesArgs, pool_size : 1..MaxWorkers, cp : {FALSE}, mv : {FALSE},
     bucket_name : {<<>>}]

\* python s3_utils.py --bucket_name=b --dpath_src=d [--dpath_dst=o] [--cp] [--mv]
ScriptArgs ==
    [mode : {"script"}, src : {<<"d">>}, dst : {<<"o">>}, dst_given : BOOLEAN,
     fnames : {None}, pool_size : 1..MaxWorkers, cp : BOOLEAN, mv : BOOLEAN,
     bucket_name : {<<"b">>}]

RunInit ==
    /\ args \in CpArgs \cup ScriptArgs
    /\ pc = "start" /\ exc = "none" /\ map_result = <<>>
    /\ bucket_name = <<>> /\ dpath_src = <<>> /\ dpath_dst = <<>>
    /\ direction = "none" /\ in_bucket = {} /\ src_fpaths = <<>>
    /\ fnames = <<>> /\ task_func = "none" /\ tasks = <<>>
    /\ bucket \in Worlds /\ local \in Worlds
    /\ PathIdle

\* init_interface, lines 117-122: parse, then PoolFunctions.__init__ lines 28-31
init_interface ==
    /\ pc = "start" /\ args.mode = "cp"
    /\ LET r == _parse_src_dst(args.src, args.dst)
       IN IF r.raised
          THEN /\ pc' = "raised" /\ exc' = "ValueError"
               /\ UNCHANGED <<bucket_name, dpath_src, dpath_dst, direction>>
          ELSE /\ pc' = "constructed" /\ exc' = exc
               /\ bucket_name' = r.bucket_name
               /\ dpath_src' = r.src
               /\ dpath_dst' = r.dst
               /\ direction' = r.direction
    /\ UNCHANGED <<args, map_result, in_bucket, src_fpaths, fnames, task_func,
                   tasks, envVars, pathVars>>

\* the script, lines 272-278: the default destination and PoolFunctions.__init__
\* with no direction
ScriptConstruct ==
    /\ pc = "start" /\ args.mode = "script"
    /\ bucket_name' = args.bucket_name
    /\ dpath_src' = args.src
    /\ dpath_dst' = IF args.dst_given THEN args.dst ELSE PathTail(args.src)
    /\ direction' = "none"
    /\ pc' = "constructed"
    /\ UNCHANGED <<args, exc, map_result, in_bucket, src_fpaths, fnames, task_func,
                   tasks, envVars, pathVars>>

\* init_src_files, lines 40-52
init_src_files ==
    /\ pc = "constructed"
    /\ in_bucket' = {files_in_bucket[i] : i \in 1..Len(files_in_bucket)}
    /\ src_fpaths' =
         IF direction = "down"
         THEN SelectSeq(files_in_bucket, LAMBDA fp : StartsWith(fp, dpath_src))
         ELSE IF direction = "up" THEN ls_r(dpath_src)
         ELSE src_fpaths
    /\ pc' = "listed"
    /\ UNCHANGED <<args, exc, map_result, bucket_name, dpath_src, dpath_dst,
                   direction, fnames, task_func, tasks, envVars, pathVars>>

\* cp lines 152-166
Resolve ==
    /\ pc = "listed" /\ args.mode = "cp"
    /\ fnames' = ResolveFnames(args.fnames, src_fpaths)
    /\ pc' = "resolved"
    /\ UNCHANGED <<args, exc, map_result, funcVars, task_func, tasks, envVars, pathVars>>

\* the script, line 282
ScriptLsR ==
    /\ pc = "listed" /\ args.mode = "script"
    /\ fnames' = ls_r(dpath_src)
    /\ pc' = "resolved"
    /\ UNCHANGED <<args, exc, map_result, funcVars, task_func, tasks, envVars, pathVars>>

\* a task: st is the pool's view of it, at its position in the function, err
\* the exception it raised; fname_dst and file_exists are the function's locals,
\* ret the value cp_to_bucket / cp_from_bucket returned, calls the number of
\* upload_file / download_file calls made, removed whether os.remove was done
NewTask == [st |-> "queued", at |-> "none", err |-> "none", fname_dst |-> <<>>,
            file_exists |-> FALSE, calls |-> 0, ret |-> "unset", removed |-> FALSE]

\* cp lines 169-188: the function is chosen by funcs.direction and pool.map is
\* entered; _parse_src_dst leaves no third direction, so the else branch
\* (NotImplementedError) is dead
Dispatch ==
    /\ pc = "resolved" /\ args.mode = "cp"
    /\ IF direction \in {"up", "down"}
       THEN /\ task_func' = IF direction = "up" THEN "cp_to_bucket" ELSE "cp_from_bucket"
            /\ tasks' = [i \in 1..Len(fnames) |-> NewTask]
            /\ pc' = "map" /\ exc' = exc
       ELSE /\ pc' = "raised" /\ exc' = "NotImplementedError"
            /\ UNCHANGED <<task_func, tasks>>
    /\ UNCHANGED <<args, map_result, funcVars, fnames, envVars, pathVars>>

\* the script, lines 295-310
ScriptDispatch ==
    /\ pc = "resolved" /\ args.mode = "script"
    /\ IF args.cp \/ args.mv
       THEN /\ task_func' = IF args.cp THEN "cp_to_bucket" ELSE "mv_to_bucket"
            /\ tasks' = [i \in 1..Len(fnames) |-> NewTask]
            /\ pc' = "map" /\ exc' = exc
       ELSE /\ pc' = "raised" /\ exc' = "NotImplementedError"
            /\ UNCHANGED <<task_func, tasks>>
    /\ UNCHANGED <<args, map_result, funcVars, fnames, envVars, pathVars>>


\* ------------------------------------------------------------ TransferTask
\* the lookup skips whenever the table holds anything at all
InBucketGet_nonempty(key) == in_bucket # {}

\* the lookup asks the bucket as it is now instead of the table
InBucketGet_live(key) == key \in bucket

\* self.in_bucket.get(fname_dst), lines 62 and 65: True for a listed key, else None
InBucketGet(key) == key \in in_bucket

\* the download consults the table of bucket keys instead of the disk
PathExists_in_bucket(path) == path \in in_bucket

\* os.path.exists(fname_dst), line 75 (the destinations of this model name
\* files, never directories)
PathExists(path) == path \in local

Running == {i \in 1..Len(tasks) : tasks[i].st = "running"}

Returned(t, r) == [t EXCEPT !.st = "returned", !.at = "none", !.ret = r]
Raised(t, e)   == [t EXCEPT !.st = "raised", !.at = "none", !.err = e]

\* mv_to_bucket keeps the local file when the upload was skipped
AfterCpToBucket_keep_skipped(t, r) ==
    IF task_func = "mv_to_bucket" /\ r # "True" THEN [t EXCEPT !.at = "remove", !.ret = r]
    ELSE Returned(t, r)

\* what follows the return of cp_to_bucket: the task's end, or line 93 of
\* mv_to_bucket
AfterCpToBucket(t, r) ==
    IF task_func = "mv_to_bucket" THEN [t EXCEPT !.at = "remove", !.ret = r]
    ELSE Returned(t, r)

\* pool.map hands the items to at most pool_size workers, in order; a batch of
\* at most 4 * pool_size items, as every batch here is, is cut into chunks of
\* one item, so each item is a task of its own
TaskStart(i) ==
    /\ pc = "map"
    /\ tasks[i].st = "queued"
    /\ \A j \in 1..(i - 1) : tasks[j].st # "queued"
    /\ Cardinality(Running) < args.pool_size
    /\ tasks' = [tasks EXCEPT ![i].st = "running", ![i].at = "enter"]
    /\ UNCHANGED <<args, pc, exc, map_result, funcVars, fnames, task_func, envVars,
                   pathVars>>

\* cp_to_bucket lines 59-62, and line 65 when the key is in the table
CpToBucketEnter(i) ==
    /\ tasks[i].st = "running" /\ tasks[i].at = "enter"
    /\ task_func \in {"cp_to_bucket", "mv_to_bucket"}
    /\ tasks' = [tasks EXCEPT ![i] =
         IF SplitRaises(dpath_src) THEN Raised(@, "ValueError")
         ELSE LET fname_dst == create_dst_fpath(fnames[i], dpath_src, dpath_dst)
                  t == [@ EXCEPT !.fname_dst = fname_dst]
              IN IF InBucketGet(fname_dst) THEN AfterCpToBucket(t, "True")
                 ELSE [t EXCEPT !.at = "upload"]]
    /\ UNCHANGED <<args, pc, exc, map_result, funcVars, fnames, task_func, envVars,
                   pathVars>>

\* cp_to_bucket lines 63-65: upload_file stores the key or raises; it cannot
\* succeed for a local file that does not exist
UploadFile(i) ==
    /\ tasks[i].st = "running" /\ tasks[i].at = "upload"
    /\ \E ok \in BOOLEAN :
         /\ ok => fnames[i] \in local
         /\ LET t == [tasks[i] EXCEPT !.calls = @ + 1]
            IN IF ok
               THEN /\ bucket' = bucket \cup {t.fname_dst}
                    /\ tasks' = [tasks EXCEPT ![i] = AfterCpToBucket(t, "None")]
               ELSE /\ bucket' = bucket
                    /\ tasks' = [tasks EXCEPT ![i] = Raised(t, "TransferError")]
    /\ UNCHANGED <<args, pc, exc, map_result, funcVars, fnames, task_func, local,
                   pathVars>>

\* mv_to_bucket line 93: os.remove(filename)
RemoveFile(i) ==
    /\ tasks[i].st = "running" /\ tasks[i].at = "remove"
    /\ IF fnames[i] \in local
       THEN /\ local' = local \ {fnames[i]}
            /\ tasks' = [tasks EXCEPT ![i] = [Returned(@, @.ret) EXCEPT !.removed = TRUE]]
       ELSE /\ local' = local
            /\ tasks' = [tasks EXCEPT ![i] = Raised(@, "FileNotFoundError")]
    /\ UNCHANGED <<args, pc, exc, map_result, funcVars, fnames, task_func, bucket,
                   pathVars>>

\* cp_from_bucket lines 72-76, and line 87 when the file exists
CpFromBucketEnter(i) ==
    /\ tasks[i].st = "running" /\ tasks[i].at = "enter"
    /\ task_func = "cp_from_bucket"
    /\ tasks' = [tasks EXCEPT ![i] =
         IF SplitRaises(dpath_src) THEN Raised(@, "ValueError")
         ELSE LET fname_dst == create_dst_fpath(fnames[i], dpath_src, dpath_dst)
                  t == [@ EXCEPT !.fname_dst = fname_dst,
                                 !.file_exists = PathExists(fname_dst)]
              IN IF t.file_exists THEN Returned(t, "True")
                 ELSE [t EXCEPT !.at = "makedirs"]]
    /\ UNCHANGED <<args, pc, exc, map_result, funcVars, fnames, task_func, envVars,
                   pathVars>>

\* cp_from_bucket lines 79-82: os.makedirs of the destination's directory;
\* FileExistsError is swallowed, any other error propagates, and
\* os.makedirs('') always raises FileNotFoundError
Makedirs(i) ==
    /\ tasks[i].st = "running" /\ tasks[i].at = "makedirs"
    /\ \E ok \in BOOLEAN :
         /\ ok => PathHead(tasks[i].fname_dst) # <<>>
         /\ tasks' = [tasks EXCEPT ![i] =
                        IF ok THEN [@ EXCEPT !.at = "download"] ELSE Raised(@, "OSError")]
    /\ UNCHANGED <<args, pc, exc, map_result, funcVars, fnames, task_func, envVars,
                   pathVars>>

\* cp_from_bucket lines 85-87: download_file writes the file or raises; it
\* cannot succeed for a key that is not in the bucket
DownloadFile(i) ==
    /\ tasks[i].st = "running" /\ tasks[i].at = "download"
    /\ \E ok \in BOOLEAN :
         /\ ok => fnames[i] \in bucket
         /\ LET t == [tasks[i] EXCEPT !.calls = @ + 1]
            IN IF ok
               THEN /\ local' = local \cup {t.fname_dst}
                    /\ tasks' = [tasks EXCEPT ![i] = Returned(t, "False")]
               ELSE /\ local' = local
                    /\ tasks' = [tasks EXCEPT ![i] = Raised(t, "TransferError")]
    /\ UNCHANGED <<args, pc, exc, map_result, funcVars, fnames, task_func, bucket,
                   pathVars>>

\* a map that gives up at the first task that raised
AllTasksOver_failfast ==
    \/ \E i \in 1..Len(tasks) : tasks[i].st = "raised"
    \/ \A i \in 1..Len(tasks) : tasks[i].st = "returned"

\* pool.map, lines 177, 186 and 310, returns the results, or re-raises a
\* task's exception, once every item has been processed
AllTasksOver == \A i \in 1..Len(tasks) : tasks[i].st \in {"returned", "raised"}

MapReturn ==
    /\ pc = "map"
    /\ AllTasksOver
    /\ IF \E i \in 1..Len(tasks) : tasks[i].st = "raised"
       THEN /\ pc' = "raised" /\ exc' = "TaskError" /\ map_result' = map_result
       ELSE /\ pc' = "done" /\ exc' = exc
            /\ map_result' = [i \in 1..Len(tasks) |->
                                IF task_func = "mv_to_bucket" THEN "None" ELSE tasks[i].ret]
    /\ UNCHANGED <<args, funcVars, fnames, task_func, tasks, envVars, pathVars>>

Next ==
    \/ init_interface \/ ScriptConstruct \/ init_src_files
    \/ Resolve \/ ScriptLsR \/ Dispatch \/ ScriptDispatch
    \/ \E i \in 1..Len(tasks) : TaskStart(i)
    \/ \E i \in 1..Len(tasks) : CpToBucketEnter(i)
    \/ \E i \in 1..Len(tasks) : UploadFile(i)
    \/ \E i \in 1..Len(tasks) : RemoveFile(i)
    \/ \E i \in 1..Len(tasks) : CpFromBucketEnter(i)
    \/ \E i \in 1..Len(tasks) : Makedirs(i)
    \/ \E i \in 1..Len(tasks) : DownloadFile(i)
    \/ MapReturn

Spec == RunInit /\ [][Next]_vars

\* ---------------------------------------------------------------- FilterSpec
\* cp's resolution of fnames (lines 152-166) over every inventory of up to two
\* distinct items and every fnames string over FilterAlphabet up to the
\* bounds, from the state cp is in once init_interface has returned for
\* cp("b:", "o", fnames): every key of the bucket is a source item.
FilterAlphabet == {"a", "b", Star}
FilterStrs == UNION {[1..k -> FilterAlphabet] : k \in 0..MaxPatLen}
FilterItems == Strs(MaxKeyLen) \ {<<>>}
Inventories ==
    {<<>>} \cup {<<x>> : x \in FilterItems}
           \cup {p \in FilterItems \X FilterItems : p[1] # p[2]}

Cat1Gif     == <<"c", "a", "t", "1", ".", "g", "i", "f">>
DogGif      == <<"d", "o", "g", ".", "g", "i", "f">>
CategoryPng == <<"c", "a", "t", "e", "g", "o", "r", "y", ".", "p", "n", "g">>
CatGif      == <<"c", "a", "t", ".", "g", "i", "f">>
CatStarGif  == <<"c", "a", "t", "*", ".", "g", "i", "f">>
ExampleInventory == <<Cat1Gif, DogGif, CategoryPng, CatGif>>

FilterCases ==
    ({None} \cup {StrArg(s) : s \in FilterStrs} \cup {ListArg(<<x>>) : x \in FilterItems})
        \X Inventories
    \cup {<<StrArg(CatStarGif), ExampleInventory>>}

FilterInit ==
    \E c \in FilterCases :
        /\ args = [mode |-> "cp", src |-> <<"b", Colon>>, dst |-> <<"o">>,
                   dst_given |-> TRUE, fnames |-> c[1], pool_size |-> 1,
                   cp |-> FALSE, mv |-> FALSE, bucket_name |-> <<>>]
        /\ src_fpaths = c[2]
        /\ in_bucket = {c[2][i] : i \in 1..Len(c[2])}
        /\ bucket = {c[2][i] : i \in 1..Len(c[2])}
    /\ pc = "listed" /\ exc = "none" /\ map_result = <<>>
    /\ bucket_name = <<"b">> /\ dpath_src = <<>> /\ dpath_dst = <<"o">>
    /\ direction = "down"
    /\ fnames = <<>> /\ task_func = "none" /\ tasks = <<>>
    /\ local = {}
    /\ PathIdle

FilterSpec == FilterInit /\ [][Resolve]_vars

\* the last path segment of x: what follows its last slash
LastSegment(x) ==
    LET slashes == {k \in 1..Len(x) : x[k] = Slash}
        last == IF slashes = {} THEN 0 ELSE CHOOSE k \in slashes : \A j \in slashes : j <= k
    IN SubSeq(x, last + 1, Len(x))

Elems(s) == {s[k] : k \in 1..Len(s)}

\* C8: with no filter cp resolves the whole source inventory, with an explicit
\* list exactly that list, and with a string 'prefix*suffix' holding one
\* wildcard exactly the inventory items whose last path segment starts with
\* prefix and ends with suffix, in inventory order; 'cat*.gif' against
\* [cat1.gif, dog.gif, category.png, cat.gif] gives [cat1.gif, cat.gif].
C8_FilterSelects ==
    pc = "resolved" =>
        LET a == args.fnames
            stars == {k \in 1..Len(a.str) : a.str[k] = Star}
        IN /\ a.kind = "none" => fnames = src_fpaths
           /\ a.kind = "list" => fnames = a.list
           /\ (a.kind = "str" /\ Cardinality(stars) = 1) =>
                LET k == CHOOSE s \in stars : TRUE
                    prefix == SubSeq(a.str, 1, k - 1)
                    suffix == SubSeq(a.str, k + 1, Len(a.str))
                    Keep(x) == /\ StartsWith(LastSegment(x), prefix)
                               /\ EndsWith(LastSegment(x), suffix)
                IN /\ Elems(fnames) = {x \in Elems(src_fpaths) : Keep(x)}
                   /\ fnames = SelectSeq(src_fpaths, Keep)
           /\ (a.str = CatStarGif /\ src_fpaths = ExampleInventory)
                => fnames = <<Cat1Gif, CatGif>>

\* the example of the claim, resolved
C8_Witness ==
    /\ pc = "resolved"
    /\ args.fnames = StrArg(CatStarGif) /\ src_fpaths = ExampleInventory
    /\ fnames = <<Cat1Gif, CatGif>>

\* C7 as stated: create_dst_fpath is idempotent under re-application whenever
\* the destination root does not begin with the source root.
C7_IdempotentAsClaimed ==
    (m_pc = "remapped" /\ ~StartsWith(m_dst, m_src)) => m_out2 = m_out

\* C7 amended: when the source root does not occur in the first result, the
\* second application returns the first result, less one leading separator,
\* joined onto the destination root once more; for a non-empty relative
\* destination root that is never the first result again.
C7_ReapplicationNests ==
    (m_pc = "remapped" /\ Find(m_out, m_src) = 0) =>
        /\ m_out2 = PathJoin(m_dst, IF m_out # <<>> /\ Head(m_out) = Slash
                                     THEN Tail(m_out) ELSE m_out)
        /\ (m_dst # <<>> /\ Head(m_dst) # Slash) => m_out2 # m_out

\* a mapped item under the source root whose result, free of the source root,
\* was mapped again and came back nested
C7_Witness ==
    /\ m_pc = "remapped"
    /\ StartsWith(m_item, m_src) /\ ~StartsWith(m_dst, m_src)
    /\ Find(m_out, m_src) = 0
    /\ Len(m_item) > Len(m_src) + 1
    /\ m_dst # <<>> /\ m_out2 = m_dst \o <<Slash>> \o m_out

\* C9: when item_id equals src_root (empty remainder) the destination is
\* exactly dst_root.
C9_EmptyRemainderIsDstRoot ==
    (m_pc \in {"mapped", "remapped"} /\ m_item = m_src) => m_out = m_dst

\* ---------------------------------------------------- properties of the run
TaskIds     == 1..Len(tasks)
UploadFuncs == {"cp_to_bucket", "mv_to_bucket"}
Over(i)     == tasks[i].st \in {"returned", "raised"}

\* the destination identifier of item i (defined for a non-empty source root)
DestOf(i) == create_dst_fpath(fnames[i], dpath_src, dpath_dst)

\* task i takes the first step of its function: path mapping and lookup
EnterStep(i) ==
    tasks[i].st = "running" /\ tasks[i].at = "enter" /\ tasks'[i] # tasks[i]

\* an endpoint carries a 'bucket:path' qualifier: exactly one colon
Qualified(e) == Cardinality({k \in 1..Len(e) : e[k] = Colon}) = 1
BeforeColon(e) == SubSeq(e, 1, Find(e, <<Colon>>) - 1)
AfterColon(e)  == SubSeq(e, Find(e, <<Colon>>) + 1, Len(e))

C3_MoveDeletesAfterUpload ==
    /\ [](\A i \in TaskIds : task_func = "mv_to_bucket" =>
            /\ tasks[i].removed => tasks[i].ret \in {"True", "None"}
            /\ (tasks[i].st = "queued" \/ tasks[i].at \in {"enter", "upload", "remove"})
                 => (fnames[i] \in local /\ ~tasks[i].removed)
            /\ tasks[i].st = "returned" => (tasks[i].removed /\ fnames[i] \notin local))
    /\ [][\A i \in TaskIds : (task_func = "mv_to_bucket" /\ tasks'[i] # tasks[i]) =>
            /\ (tasks[i].at \in {"enter", "upload"} /\ tasks'[i].ret # "unset")
                 => tasks'[i].at = "remove"
            /\ tasks[i].at = "remove"
                 => (tasks'[i].removed /\ tasks'[i].st = "returned"
                     /\ fnames[i] \notin local')]_vars

\* one move that skipped its upload and one that made it, both files removed
C3_Witness ==
    \E i, j \in TaskIds :
        /\ task_func = "mv_to_bucket"
        /\ tasks[i].st = "returned" /\ tasks[i].removed
        /\ tasks[i].ret = "True" /\ tasks[i].calls = 0
        /\ tasks[j].st = "returned" /\ tasks[j].removed
        /\ tasks[j].ret = "None" /\ tasks[j].calls = 1

\* C4: when both or neither of src and dst carry a 'bucket:path' qualifier,
\* cp raises the configuration error (ValueError) before anything is listed
\* and before any task exists.
C4_BothOrNeitherRaises ==
    (/\ args.mode = "cp" /\ pc # "start"
     /\ Qualified(args.src) <=> Qualified(args.dst))
        => /\ pc = "raised" /\ exc = "ValueError"
           /\ in_bucket = {} /\ src_fpaths = <<>> /\ tasks = <<>>

\* C5: when exactly one of src and dst is qualified, parsing does not raise;
\* a qualified src gives direction down, the bucket before the colon, the
\* source root after it and dst unchanged; a qualified dst gives direction up,
\* the bucket before the colon, the destination root after it and src
\* unchanged; and cp hands pool.map cp_from_bucket for down, cp_to_bucket for up.
C5_DirectionInferred ==
    (/\ args.mode = "cp" /\ pc # "start"
     /\ Qualified(args.src) # Qualified(args.dst))
        => /\ exc # "ValueError"
           /\ IF Qualified(args.src)
              THEN /\ direction = "down"
                   /\ bucket_name = BeforeColon(args.src)
                   /\ dpath_src = AfterColon(args.src)
                   /\ dpath_dst = args.dst
              ELSE /\ direction = "up"
                   /\ bucket_name = BeforeColon(args.dst)
                   /\ dpath_dst = AfterColon(args.dst)
                   /\ dpath_src = args.src
           /\ task_func \in {"none", IF direction = "down" THEN "cp_from_bucket"
                                     ELSE "cp_to_bucket"}
           /\ (pc \in {"map", "done"} \/ exc = "TaskError") => task_func # "none"

\* an upload inferred from a qualified dst, with a file actually uploaded
C5_Witness ==
    /\ args.mode = "cp" /\ Qualified(args.dst) /\ ~Qualified(args.src)
    /\ direction = "up" /\ bucket_name = <<"c">> /\ dpath_dst = <<"o">>
    /\ task_func = "cp_to_bucket"
    /\ \E i \in TaskIds : tasks[i].calls = 1 /\ tasks[i].st = "returned"

\* C6: pool.map has returned or re-raised only when every item of the batch
\* has a task that returned or raised; while any task is still queued or
\* running the caller is inside map and has no result.
C6_MapBlocksOnBatch ==
    /\ (pc = "done" \/ (pc = "raised" /\ exc = "TaskError") \/ map_result # <<>>)
          => /\ Len(tasks) = Len(fnames)
             /\ \A i \in TaskIds : Over(i)
    /\ pc = "done" => Len(map_result) = Len(fnames)
    /\ (\E i \in TaskIds : ~Over(i)) => (pc = "map" /\ map_result = <<>>)

\* a batch on two workers in which one task returned and one raised, re-raised
\* to the caller after both were over
C6_Witness ==
    /\ pc = "raised" /\ exc = "TaskError" /\ args.pool_size = 2
    /\ \E i, j \in TaskIds : tasks[i].st = "returned" /\ tasks[j].st = "raised"

\* C10: the table is the full bucket listing, made in the one step that
\* precedes any task, and no later step changes it; an upload's lookup answers
\* from the table alone, so a key uploaded during the run stays absent for a
\* later task with the same destination identifier.
C10_TableFrozen ==
    /\ [](tasks # <<>> => pc \in {"map", "done", "raised"})
    /\ [][IF pc = "constructed" THEN in_bucket' = bucket /\ tasks' = <<>>
          ELSE in_bucket' = in_bucket]_vars
    /\ [](\A i \in TaskIds : (task_func \in UploadFuncs /\ tasks[i].ret # "unset")
            => (tasks[i].ret = "True" <=> DestOf(i) \in in_bucket))

\* one worker: two uploads to the same key, one after the other, both made,
\* the key in the bucket and still not in the table
C10_Witness ==
    \E i, j \in TaskIds :
        /\ i < j /\ args.pool_size = 1 /\ task_func = "cp_to_bucket"
        /\ tasks[i].st = "returned" /\ tasks[j].st = "returned"
        /\ tasks[i].calls = 1 /\ tasks[j].calls = 1
        /\ tasks[i].fname_dst = tasks[j].fname_dst
        /\ tasks[i].fname_dst \in bucket /\ tasks[i].fname_dst \notin in_bucket

====
